---- MODULE Spec2Model ----
(***************************************************************************)
(* VisionEye (ultralytics/solutions/vision_eye.py): per-frame annotation   *)
(* of tracked detections with a labeled box and a "vision" link drawn from *)
(* a configurable vision point.                                            *)
(*                                                                         *)
(* The instance state is vision_point, line_width, verbose and the three   *)
(* per-frame attributes clss, track_ids, boxes that extract_tracks leaves  *)
(* behind.  The collaborators (tracker extraction, name table, palette,    *)
(* SolutionAnnotator draws, display_output) are external; what the model   *)
(* records of them is the sequence of invocations mapping() issues, in     *)
(* order, with their arguments (variable calls), and what mapping() gives  *)
(* back to its caller (variable outcome).                                  *)
(***************************************************************************)
EXTENDS Integers, Sequences, FiniteSets, TLC

VARIABLES
    vision_point,   \* self.vision_point
    line_width,     \* self.line_width   (BaseSolution configuration)
    verbose,        \* self.verbose      (BaseSolution configuration)
    clss,           \* self.clss         (left behind by extract_tracks)
    track_ids,      \* self.track_ids    (left behind by extract_tracks)
    boxes,          \* self.boxes        (left behind by extract_tracks)
    calls,          \* collaborator invocations of the most recent mapping()
    outcome,        \* what the most recent mapping() gave its caller
    op,             \* history: name of the most recent operation
    last_set,       \* history: argument of the most recent set_vision_point
    fault,          \* history: the collaborator failure of the most recent mapping()
    repeat          \* history: the most recent mapping() directly followed a mapping()
                    \*          that returned normally, on the same tracker output

vars == <<vision_point, line_width, verbose, clss, track_ids, boxes,
          calls, outcome, op, last_set, fault, repeat>>

(***************************************************************************)
(* Bounds and input sets                                                   *)
(***************************************************************************)
MaxTracks == 2

ClassIds == {0, 1}

\* (class id, track id, box) triples a tracker may report for one object
Detections ==
    { <<0, 5, <<10, 10, 50, 50>>>>,
      <<1, 7, <<60, 60, 90, 90>>>>,
      <<1, 5, <<60, 60, 90, 90>>>> }

\* Points a caller passes to set_vision_point: in-frame and out-of-frame
Points == { <<100, 100>>, <<-5, 700>> }

LineWidths == {2, 3}

NoPoint == <<>>

NoFault == [at |-> 0, exc |-> "none"]

\* Sequences of at most n distinct elements of S: a tracker reports a
\* detection once per frame
SeqsUpTo(S, n) ==
    UNION { { q \in [1..k -> S] : \A i, j \in 1..k : q[i] = q[j] => i = j }
            : k \in 0..n }

Min(a, b) == IF a <= b THEN a ELSE b

(***************************************************************************)
(* Collaborators                                                           *)
(***************************************************************************)
\* self.names: the class-name table of the loaded model
names == [c \in ClassIds |-> IF c = 0 THEN "person" ELSE "bicycle"]

\* ultralytics.utils.plotting.colors(i, bgr): the palette, a pure function
colors(i, bgr) == [key |-> i, bgr |-> bgr]

\* What extract_tracks assigns to self.clss, self.track_ids, self.boxes for a
\* tracker output given as a sequence of (class id, track id, box) triples
TrackerAttrs(tracks) ==
    [clss      |-> [i \in 1..Len(tracks) |-> tracks[i][1]],
     track_ids |-> [i \in 1..Len(tracks) |-> tracks[i][2]],
     boxes     |-> [i \in 1..Len(tracks) |-> tracks[i][3]]]

\* self.extract_tracks(im0): replaces the three per-frame attributes; when the
\* tracker raises, nothing has been assigned yet
extract_tracks(self, attrs, raises) ==
    IF raises THEN self
    ELSE [self EXCEPT !.clss = attrs.clss,
                      !.track_ids = attrs.track_ids,
                      !.boxes = attrs.boxes]

(***************************************************************************)
(* VisionEye                                                               *)
(***************************************************************************)
\* Mutant of DefaultVisionPoint: the default anchored at the frame origin
OriginVisionPoint == <<0, 0>>

\* __init__: self.vision_point = (20, 20)
DefaultVisionPoint == <<20, 20>>

\* Mutant of set_vision_point: the assignment misses the attribute, so the
\* stored point is left as it was
set_vision_point_ignored(self, p) == self

\* Mutant of set_vision_point: the point is clamped into the frame
set_vision_point_clamped(self, p) ==
    [self EXCEPT !.vision_point =
        << IF p[1] < 0 THEN 0 ELSE p[1], IF p[2] < 0 THEN 0 ELSE p[2] >>]

\* set_vision_point: self.vision_point = vision_point
set_vision_point(self, p) == [self EXCEPT !.vision_point = p]

\* Mutant of zip: the tracks are visited last to first
zip_reversed(a, b, c) ==
    LET n == Min(Len(a), Min(Len(b), Len(c)))
    IN  [i \in 1..n |-> <<a[n + 1 - i], b[n + 1 - i], c[n + 1 - i]>>]

\* zip(self.clss, self.track_ids, self.boxes): stops at the shortest sequence
zip(a, b, c) ==
    [i \in 1..Min(Len(a), Min(Len(b), Len(c))) |-> <<a[i], b[i], c[i]>>]

\* Mutant of TrackCalls: the color is looked up by class id
TrackCallsColorByClass(cls, t_id, box, self) ==
    << [fn |-> "names", cls |-> cls],
       [fn |-> "colors", i |-> cls, bgr |-> TRUE],
       [fn |-> "box_label", box |-> box, label |-> names[cls],
        color |-> colors(cls, TRUE), lw |-> self.line_width],
       [fn |-> "visioneye", box |-> box, point |-> self.vision_point] >>

\* One iteration of the loop body: the label and the color are evaluated as
\* arguments, then box_label is called, then visioneye.  Track ids are
\* integers, on which int() changes nothing; the annotator draws with the
\* line width it was constructed with (self.line_width)
TrackCalls(cls, t_id, box, self) ==
    << [fn |-> "names", cls |-> cls],
       [fn |-> "colors", i |-> t_id, bgr |-> TRUE],
       [fn |-> "box_label", box |-> box, label |-> names[cls],
        color |-> colors(t_id, TRUE), lw |-> self.line_width],
       [fn |-> "visioneye", box |-> box, point |-> self.vision_point] >>

\* Mutant of LoopCalls: two passes, all labeled boxes first, then all links
LoopCallsTwoPasses(zipped, self) ==
    LET n == Len(zipped)
        T(i) == TrackCalls(zipped[i][1], zipped[i][2], zipped[i][3], self)
    IN  [j \in 1..(4 * n) |->
            IF j <= 3 * n THEN T(((j - 1) \div 3) + 1)[((j - 1) % 3) + 1]
            ELSE T(j - 3 * n)[4]]

\* for cls, t_id, box in zip(...): the invocations of all iterations, in order
RECURSIVE LoopCalls(_, _)
LoopCalls(zipped, self) ==
    IF zipped = <<>> THEN <<>>
    ELSE TrackCalls(zipped[1][1], zipped[1][2], zipped[1][3], self)
         \o LoopCalls(Tail(zipped), self)

\* Mutant of MappingCalls: display_output indented into the loop body
RECURSIVE LoopCallsDisplaying(_, _)
LoopCallsDisplaying(zipped, self) ==
    IF zipped = <<>> THEN <<>>
    ELSE TrackCalls(zipped[1][1], zipped[1][2], zipped[1][3], self)
         \o << [fn |-> "display_output"] >>
         \o LoopCallsDisplaying(Tail(zipped), self)

MappingCallsDisplayInLoop(self) ==
    << [fn |-> "extract_tracks"] >>
    \o LoopCallsDisplaying(zip(self.clss, self.track_ids, self.boxes), self)

\* The invocations a mapping() call issues when no collaborator raises
MappingCalls(self) ==
    << [fn |-> "extract_tracks"] >>
    \o LoopCalls(zip(self.clss, self.track_ids, self.boxes), self)
    \o << [fn |-> "display_output"] >>

\* Mutant of Propagate: the failure is caught and the call carries on
PropagateSwallowed(planned, flt) ==
    [calls |-> planned, outcome |-> [status |-> "returned"]]

\* No try/except in mapping(): the at-th invocation raising ends the call there
Propagate(planned, flt) ==
    IF flt.at \in 1..Len(planned)
    THEN [calls |-> SubSeq(planned, 1, flt.at),
          outcome |-> [status |-> "raised", exc |-> flt.exc]]
    ELSE [calls |-> planned, outcome |-> [status |-> "returned"]]

\* total_tracks=len(self.track_ids)
total_tracks(self) == Len(self.track_ids)

\* SolutionResults(plot_im=plot_im, total_tracks=..., verbose=self.verbose)
SolutionResults(self) ==
    [status |-> "returned", total_tracks |-> total_tracks(self),
     verbose |-> self.verbose]

\* Mutant of mapping: the loop runs over the attributes as they were before
\* this frame's extraction
mapping_stale(self, attrs, flt) ==
    LET s1    == extract_tracks(self, attrs, flt.at = 1)
        stale == [s1 EXCEPT !.clss = self.clss, !.track_ids = self.track_ids,
                            !.boxes = self.boxes]
        run   == Propagate(MappingCalls(stale), flt)
    IN  [self    |-> s1,
         calls   |-> run.calls,
         outcome |-> IF run.outcome.status = "returned"
                     THEN SolutionResults(s1) ELSE run.outcome]

\* mapping(im0): attrs is what the tracker extraction stores for this frame,
\* flt the collaborator failure (if any) met during the call
mapping(self, attrs, flt) ==
    LET s1  == extract_tracks(self, attrs, flt.at = 1)
        run == Propagate(MappingCalls(s1), flt)
    IN  [self    |-> s1,
         calls   |-> run.calls,
         outcome |-> IF run.outcome.status = "returned"
                     THEN SolutionResults(s1) ELSE run.outcome]

(***************************************************************************)
(* State machine                                                           *)
(***************************************************************************)
Self ==
    [vision_point |-> vision_point, line_width |-> line_width,
     verbose |-> verbose, clss |-> clss, track_ids |-> track_ids,
     boxes |-> boxes]

Init ==
    /\ vision_point = DefaultVisionPoint
    /\ line_width \in LineWidths
    /\ verbose \in BOOLEAN
    /\ clss = <<>>
    /\ track_ids = <<>>
    /\ boxes = <<>>
    /\ calls = <<>>
    /\ outcome = [status |-> "none"]
    /\ op = "init"
    /\ last_set = NoPoint
    /\ fault = NoFault
    /\ repeat = FALSE

SetVisionPoint ==
    \E p \in Points :
        LET s == set_vision_point(Self, p)
        IN  /\ vision_point' = s.vision_point
            /\ line_width' = s.line_width
            /\ verbose' = s.verbose
            /\ clss' = s.clss
            /\ track_ids' = s.track_ids
            /\ boxes' = s.boxes
            /\ op' = "set_vision_point"
            /\ last_set' = p
            /\ UNCHANGED <<calls, outcome, fault, repeat>>

\* One mapping() call on tracker attributes attrs with collaborator failure flt
MappingStep(attrs, flt) ==
    \E r \in {mapping(Self, attrs, flt)} :
        /\ vision_point' = r.self.vision_point
        /\ line_width' = r.self.line_width
        /\ verbose' = r.self.verbose
        /\ clss' = r.self.clss
        /\ track_ids' = r.self.track_ids
        /\ boxes' = r.self.boxes
        /\ calls' = r.calls
        /\ outcome' = r.outcome
        /\ op' = "mapping"
        /\ fault' = flt
        /\ repeat' = /\ op = "mapping"
                     /\ outcome.status = "returned"
                     /\ flt.at = 0
                     /\ attrs = [clss |-> clss, track_ids |-> track_ids,
                                 boxes |-> boxes]
        /\ UNCHANGED last_set

\* Number of collaborator invocations of a call over n complete tracks
Steps(n) == 4 * n + 2

\* The exception the at-th collaborator invocation raises when it fails: a
\* failed lookup in the name table is a KeyError, any other failure an error
\* of the collaborator's own
Raised(attrs, at) ==
    IF at > 1 /\ at < Steps(Len(attrs.clss)) /\ (at - 2) % 4 = 0
    THEN "KeyError" ELSE "RuntimeError"

\* mapping() on a frame for which the tracker reports a sequence of tracks
Mapping ==
    \E tracks \in SeqsUpTo(Detections, MaxTracks) :
        \/ MappingStep(TrackerAttrs(tracks), NoFault)
        \/ \E at \in 1..Steps(Len(tracks)) :
               MappingStep(TrackerAttrs(tracks),
                           [at |-> at, exc |-> Raised(TrackerAttrs(tracks), at)])

\* mapping() when the three per-frame attributes have independent lengths
MappingRaggedAttrs ==
    \E tracks \in SeqsUpTo(Detections, MaxTracks) :
        \E a, b, c \in 0..Len(tracks) :
            LET t == TrackerAttrs(tracks)
            IN  MappingStep([clss      |-> SubSeq(t.clss, 1, a),
                             track_ids |-> SubSeq(t.track_ids, 1, b),
                             boxes     |-> SubSeq(t.boxes, 1, c)], NoFault)

Next == SetVisionPoint \/ Mapping

Spec == Init /\ [][Next]_vars

NextAttrs == SetVisionPoint \/ MappingRaggedAttrs

SpecAttrs == Init /\ [][NextAttrs]_vars

(***************************************************************************)
(* Properties                                                              *)
(***************************************************************************)
BoxLabels(cs) == SelectSeq(cs, LAMBDA e : e.fn = "box_label")

VisionEyes(cs) == SelectSeq(cs, LAMBDA e : e.fn = "visioneye")

Displays(cs) == SelectSeq(cs, LAMBDA e : e.fn = "display_output")

Returned == outcome.status = "returned"

\* C1: a mapping call on a tracker output of N tracks (N >= 0) returns
\* total_tracks = N and issues exactly N labeled-box draws and N vision-link
\* draws, the i-th of each on the box of the i-th track in the tracker's order.
C1_OneDrawPairPerTrack ==
    Returned =>
        LET N == Len(boxes)
        IN  /\ Len(clss) = N /\ Len(track_ids) = N
            /\ outcome.total_tracks = N
            /\ Len(BoxLabels(calls)) = N
            /\ Len(VisionEyes(calls)) = N
            /\ \A i \in 1..N :
                   /\ BoxLabels(calls)[i].box = boxes[i]
                   /\ VisionEyes(calls)[i].box = boxes[i]

C1_Witness ==
    /\ Returned
    /\ Len(boxes) = 2
    /\ boxes[1] # boxes[2]
    /\ Len(BoxLabels(calls)) = 2

\* C2: a mapping call that returns normally invoked display_output exactly
\* once, as its last collaborator invocation, after every draw, also with
\* zero tracks.
C2_DisplayOnceAfterDraws ==
    Returned =>
        /\ Len(Displays(calls)) = 1
        /\ calls[Len(calls)].fn = "display_output"
        /\ \A j \in 1..(Len(calls) - 1) : calls[j].fn # "display_output"

C2_Witness ==
    /\ Returned
    /\ Len(VisionEyes(calls)) = 2
    /\ Len(Displays(calls)) = 1

\* C3: every vision-link draw of a mapping call uses the point of the most
\* recent set_vision_point call before it, and all vision-link draws of one
\* call use the same point.
C3_LinksUseLatestPoint ==
    /\ (op = "mapping" /\ last_set # NoPoint) =>
           \A i \in 1..Len(VisionEyes(calls)) :
               VisionEyes(calls)[i].point = last_set
    /\ \A i, j \in 1..Len(VisionEyes(calls)) :
           VisionEyes(calls)[i].point = VisionEyes(calls)[j].point

C3_Witness ==
    /\ op = "mapping"
    /\ last_set = <<100, 100>>
    /\ Len(VisionEyes(calls)) = 1
    /\ VisionEyes(calls)[1].point = <<100, 100>>

\* C4: as long as set_vision_point has never been called the stored vision
\* point is (20,20) and every vision-link draw of every mapping call so far
\* used (20,20).
C4_DefaultPoint ==
    last_set = NoPoint =>
        /\ vision_point = <<20, 20>>
        /\ \A i \in 1..Len(VisionEyes(calls)) :
               VisionEyes(calls)[i].point = <<20, 20>>

C4_Witness ==
    /\ last_set = NoPoint
    /\ repeat
    /\ Len(VisionEyes(calls)) = 2

\* C5: a mapping call that returns normally after a mapping call that returned
\* normally, on the same tracker output and with the same vision_point and
\* line_width, issues the same sequence of invocations and returns the same
\* total_tracks, whatever calls came before the two.
C5_Determinism ==
    [][ ( /\ op = "mapping" /\ op' = "mapping"
          /\ outcome.status = "returned" /\ outcome'.status = "returned"
          /\ <<clss', track_ids', boxes'>> = <<clss, track_ids, boxes>>
          /\ vision_point' = vision_point
          /\ line_width' = line_width )
        => ( /\ calls' = calls
             /\ outcome'.total_tracks = outcome.total_tracks ) ]_vars

C5_Witness ==
    /\ repeat
    /\ Returned
    /\ Len(BoxLabels(calls)) = 2
    /\ last_set # NoPoint

\* C6: the color of a labeled-box draw is the palette's value for the track's
\* track_id and nothing else: two tracks with the same track_id, in one frame
\* or in two successive frames, get the same color.
C6_ColorStability ==
    [][ LET old == BoxLabels(calls)
            new == BoxLabels(calls')
        IN  /\ \A i \in 1..Len(new) :
                   new[i].color = colors(track_ids'[i], TRUE)
            /\ \A i, j \in 1..Len(new) :
                   track_ids'[i] = track_ids'[j] => new[i].color = new[j].color
            /\ \A i \in 1..Len(old), j \in 1..Len(new) :
                   track_ids[i] = track_ids'[j] => old[i].color = new[j].color
      ]_vars

C6_Witness ==
    /\ Returned
    /\ Len(BoxLabels(calls)) = 2
    /\ track_ids[1] = track_ids[2]
    /\ clss[1] # clss[2]
    /\ boxes[1] # boxes[2]
    /\ BoxLabels(calls)[1].color = BoxLabels(calls)[2].color

\* C7: a collaborator failure during mapping propagates unmodified: the call
\* raises the collaborator's exception, the failing invocation is the last
\* one issued, display_output was not invoked before it, no result is
\* returned and the stored vision_point is what it was.
C7_FailurePropagates ==
    fault.at >= 1 =>
        /\ outcome = [status |-> "raised", exc |-> fault.exc]
        /\ Len(calls) = fault.at
        /\ \A j \in 1..(Len(calls) - 1) : calls[j].fn # "display_output"
        /\ vision_point = IF last_set = NoPoint THEN <<20, 20>> ELSE last_set

C7_Witness ==
    /\ outcome.status = "raised"
    /\ op = "mapping"
    /\ Len(track_ids) = 2
    /\ calls[Len(calls)].fn = "box_label"
    /\ Len(VisionEyes(calls)) = 1
    /\ last_set = <<100, 100>>

\* C8: set_vision_point(p) stores exactly p, whatever p is, changes nothing
\* else and issues no collaborator invocation; repeated with the same p it
\* changes nothing.
C8_SetVisionPoint ==
    [][ /\ op' = "set_vision_point" =>
               /\ vision_point' = last_set'
               /\ UNCHANGED <<line_width, verbose, clss, track_ids, boxes,
                              calls, outcome>>
        /\ (op = "set_vision_point" /\ op' = "set_vision_point"
              /\ last_set' = last_set) => vision_point' = vision_point
      ]_vars

C8_Witness ==
    /\ op = "set_vision_point"
    /\ vision_point = <<-5, 700>>
    /\ Len(BoxLabels(calls)) = 2

C10_InterleavedPerTrack ==
    /\ \A j \in 1..Len(calls) :
           /\ (calls[j].fn = "box_label" /\ j < Len(calls)) =>
                  /\ calls[j + 1].fn = "visioneye"
                  /\ calls[j + 1].box = calls[j].box
           /\ (calls[j].fn = "box_label" /\ j = Len(calls)) =>
                  (outcome.status = "raised" /\ fault.at = j)
           /\ calls[j].fn = "visioneye" =>
                  /\ j > 1
                  /\ calls[j - 1].fn = "box_label"
                  /\ calls[j - 1].box = calls[j].box
    /\ \A i \in 1..Len(BoxLabels(calls)) : BoxLabels(calls)[i].box = boxes[i]

C10_Witness ==
    /\ Returned
    /\ Len(BoxLabels(calls)) = 2
    /\ BoxLabels(calls)[1].box # BoxLabels(calls)[2].box
    /\ calls[4].fn = "box_label" /\ calls[5].fn = "visioneye"
    /\ calls[8].fn = "box_label" /\ calls[9].fn = "visioneye"

====
